---------------------------- MODULE Spec2Model ----------------------------
(***************************************************************************)
(* Model of package chacha (src/chacha.go): the ChaCha stream cipher with  *)
(* its block transform (Cipher.next), Seek, Read and XORKeyStream.         *)
(*                                                                         *)
(* Representation of machine integers.  TLC's integers are narrower than   *)
(* a uint32, so a uint32 is the pair <<lo, hi>> of its 16-bit halves and a *)
(* uint64 the 4-tuple of its 16-bit limbs, least significant first.  All   *)
(* arithmetic below is exact modulo 2^32 (resp. 2^64).  A byte is an       *)
(* integer in 0..255, a slice a sequence of bytes.                         *)
(***************************************************************************)
EXTENDS Integers, Sequences, FiniteSets, TLC

-----------------------------------------------------------------------------
(* uint32 / uint64 arithmetic *)

Half == 2^16

RECURSIVE BitOp(_, _, _, _)
\* a op b on naturals below 2^n, bit by bit; op is "xor" or "or"
BitOp(op, a, b, n) ==
    IF n = 0 THEN 0
    ELSE 2 * BitOp(op, a \div 2, b \div 2, n - 1)
         + (IF op = "xor" THEN (a + b) % 2
            ELSE IF a % 2 = 1 \/ b % 2 = 1 THEN 1 ELSE 0)

RECURSIVE Row(_, _, _)
\* <<a op 0, ..., a op (n - 1)>> for 4-bit a
Row(op, a, n) == IF n = 0 THEN <<>> ELSE Append(Row(op, a, n - 1), BitOp(op, a, n - 1, 4))

RECURSIVE Table(_, _)
\* the table of op on 4-bit operands: Table(op, 16)[a + 1][b + 1] = a op b
Table(op, n) == IF n = 0 THEN <<>> ELSE Append(Table(op, n - 1), Row(op, n - 1, 16))

XorTable == Table("xor", 16)
OrTable == Table("or", 16)

\* a op b on 16-bit operands, four bits at a time through the table T
Op16(T, a, b) ==
    T[(a % 16) + 1][(b % 16) + 1]
    + 16 * T[((a \div 16) % 16) + 1][((b \div 16) % 16) + 1]
    + 256 * T[((a \div 256) % 16) + 1][((b \div 256) % 16) + 1]
    + 4096 * T[(a \div 4096) + 1][(b \div 4096) + 1]

\* a ^ b and a | b on 16-bit operands (bytes included)
Xor(a, b) == Op16(XorTable, a, b)
Or(a, b) == Op16(OrTable, a, b)

\* x + y on uint32 (wraps modulo 2^32)
Add32(x, y) ==
    LET s0 == x[1] + y[1]
        s1 == x[2] + y[2] + (s0 \div Half)
    IN  <<s0 % Half, s1 % Half>>

\* x ^ y on uint32
Xor32(x, y) == <<Xor(x[1], y[1]), Xor(x[2], y[2])>>

\* x | y on uint32
Or32(x, y) == <<Or(x[1], y[1]), Or(x[2], y[2])>>

\* x << n on uint32, 0 < n < 32 (bits shifted out are lost)
Shl32(x, n) ==
    IF n >= 16
    THEN <<0, (x[1] * 2^(n - 16)) % Half>>
    ELSE <<(x[1] * 2^n) % Half,
           (x[2] * 2^n + ((x[1] * 2^n) \div Half)) % Half>>

\* x >> n on uint32, 0 < n < 32
Shr32(x, n) ==
    IF n >= 16
    THEN <<x[2] \div 2^(n - 16), 0>>
    ELSE <<(x[1] \div 2^n) + (x[2] % 2^n) * 2^(16 - n), x[2] \div 2^n>>

\* a rotation to the right: (t >> n) | (t << (32 - n))
RotRight(t, n) == Or32(Shr32(t, n), Shl32(t, 32 - n))

\* (t << n) | (t >> (32 - n)), the rotation written out in Cipher.next
Rot(t, n) == Or32(Shl32(t, n), Shr32(t, 32 - n))

\* uint64(hi)<<32 | uint64(lo)
U64(lo, hi) == <<lo[1], lo[2], hi[1], hi[2]>>

\* uint32(v) and uint32(v >> 32)
Lo32(v) == <<v[1], v[2]>>
Hi32(v) == <<v[3], v[4]>>

\* an increment of the low counter word alone, without the carry
Inc64Low(v) ==
    LET s1 == v[1] + 1
        s2 == v[2] + (s1 \div Half)
    IN  <<s1 % Half, s2 % Half, v[3], v[4]>>

\* v + 1 on uint64 (wraps modulo 2^64)
Inc64(v) ==
    LET s1 == v[1] + 1
        s2 == v[2] + (s1 \div Half)
        s3 == v[3] + (s2 \div Half)
        s4 == v[4] + (s3 \div Half)
    IN  <<s1 % Half, s2 % Half, s3 % Half, s4 % Half>>

Zero64 == <<0, 0, 0, 0>>
Max32 == <<Half - 1, Half - 1>>
Max64 == <<Half - 1, Half - 1, Half - 1, Half - 1>>

\* binary.LittleEndian.Uint32(b) panics unless b has 4 bytes
Uint32Ok(b) == Len(b) >= 4

\* binary.LittleEndian.Uint32(b), for b with at least 4 bytes
Uint32(b) == <<b[1] + 256 * b[2], b[3] + 256 * b[4]>>

\* binary.LittleEndian.PutUint32(b, v): the 4 bytes written
PutUint32(v) == <<v[1] % 256, v[1] \div 256, v[2] % 256, v[2] \div 256>>

-----------------------------------------------------------------------------
(* The cipher *)

\* len(c.output)
OutputLen == 64

\* The statements of the round loop on the working variables w (a record
\* with a field for each of a .. p, c1 for the variable of that name, and
\* the temporary t):
\*   x += y
AddTo(w, x, y) == [w EXCEPT ![x] = Add32(w[x], w[y])]

\*   t = v ^ x
XorInto(w, v, x) == [w EXCEPT !.t = Xor32(w[v], w[x])]

\*   v = (t << n) | (t >> (32 - n))
RotInto(w, v, n) == [w EXCEPT ![v] = Rot(w.t, n)]

\* three statements in a row: x += y; t = v ^ x; v = (t << n) | (t >> (32 - n))
Triple(w, x, y, v, n) == RotInto(XorInto(AddTo(w, x, y), v, x), v, n)

\* One 12-statement group of the round loop on working variables x, y, z, v:
\*   x += y; t = v ^ x; v = (t << 16) | (t >> 16)
\*   z += v; t = y ^ z; y = (t << 12) | (t >> 20)
\*   x += y; t = v ^ x; v = (t << 8)  | (t >> 24)
\*   z += v; t = y ^ z; y = (t << 7)  | (t >> 25)
\* (the variables are taken as the statements before the group left them:
\* s is w, evaluated before the first statement of the group runs)
Group(w, x, y, z, v) ==
    CHOOSE r \in {Triple(Triple(Triple(Triple(s, x, y, v, 16), z, v, y, 12),
                                x, y, v, 8), z, v, y, 7) : s \in {w}} : TRUE

\* The body of the round loop: the eight groups in source order, the first
\* group innermost
LoopBody(w) ==
    Group(Group(Group(Group(
    Group(Group(Group(Group(w, "a",  "e", "i", "m"),
                               "b",  "f", "j", "n"),
                               "c1", "g", "k", "o"),
                               "d",  "h", "l", "p"),
                               "a",  "f", "k", "p"),
                               "b",  "g", "l", "m"),
                               "c1", "h", "i", "n"),
                               "d",  "e", "j", "o")

RECURSIVE RoundLoopFloor(_)
\* a round loop that goes on while z > 1
RoundLoopFloor(s) ==
    IF s.z > 1
    THEN RoundLoopFloor([w |-> LoopBody(s.w), z |-> s.z - 2, iters |-> s.iters + 1])
    ELSE s

RECURSIVE RoundLoop(_)
\* for z := c.rounds; z > 0; z -= 2 { ... } on the loop state
\* s = [w: the working variables, z: the loop variable, iters: passes made]
RoundLoop(s) ==
    IF s.z > 0
    THEN RoundLoop([w |-> LoopBody(s.w), z |-> s.z - 2, iters |-> s.iters + 1])
    ELSE s

\* c.input[q] and c.output[b] of the source: both arrays are kept as
\* tuples, which TLA+ indexes from 1
In(c, q) == c.input[q + 1]
Out(c, b) == c.output[b + 1]

\* a next that also refuses to generate the block whose increment wraps
ExhaustedAtWrap(c) == c.eof \/ U64(In(c, 12), In(c, 13)) = Max64

\* if c.eof { return errors.New("exhausted keystream") }
Exhausted(c) == c.eof

\* a next that never notices the wrap of the counter
WrappedNever(ctr) == FALSE

\* if ctr == 0 { c.eof = true }
Wrapped(ctr) == ctr = Zero64

\* var t uint32; a := c.input[0]; ...; p := c.input[15]
Working(c) ==
    [a |-> In(c, 0),  b |-> In(c, 1),  c1 |-> In(c, 2),  d |-> In(c, 3),
     e |-> In(c, 4),  f |-> In(c, 5),  g |-> In(c, 6),   h |-> In(c, 7),
     i |-> In(c, 8),  j |-> In(c, 9),  k |-> In(c, 10),  l |-> In(c, 11),
     m |-> In(c, 12), n |-> In(c, 13), o |-> In(c, 14),  p |-> In(c, 15),
     t |-> <<0, 0>>]

\* a += c.input[0]; PutUint32(c.output[4*0:], a); ...: the 64 bytes written
\* to output from the working variables w
Block(c, w) ==
       PutUint32(Add32(w.a,  In(c, 0)))  \o PutUint32(Add32(w.b, In(c, 1)))
    \o PutUint32(Add32(w.c1, In(c, 2)))  \o PutUint32(Add32(w.d, In(c, 3)))
    \o PutUint32(Add32(w.e,  In(c, 4)))  \o PutUint32(Add32(w.f, In(c, 5)))
    \o PutUint32(Add32(w.g,  In(c, 6)))  \o PutUint32(Add32(w.h, In(c, 7)))
    \o PutUint32(Add32(w.i,  In(c, 8)))  \o PutUint32(Add32(w.j, In(c, 9)))
    \o PutUint32(Add32(w.k,  In(c, 10))) \o PutUint32(Add32(w.l, In(c, 11)))
    \o PutUint32(Add32(w.m,  In(c, 12))) \o PutUint32(Add32(w.n, In(c, 13)))
    \o PutUint32(Add32(w.o,  In(c, 14))) \o PutUint32(Add32(w.p, In(c, 15)))

\* the cipher once out has been written to output and the counter has been
\* set to ctr: eof on a wrap, the counter words, nextByte = 0
Advance(c, out, ctr) ==
    [c EXCEPT !.output = out,
              !.eof = IF Wrapped(ctr) THEN TRUE ELSE c.eof,
              !.input = [c.input EXCEPT ![12 + 1] = Lo32(ctr), ![13 + 1] = Hi32(ctr)],
              !.nextByte = 0]

\* what next does after the round loop has ended in loop state r
AfterLoop(c, r) ==
    [c     |-> Advance(c, Block(c, r.w), Inc64(U64(In(c, 12), In(c, 13)))),
     err   |-> "nil",
     iters |-> r.iters]

\* Cipher.next: fills output with the next block, advances the counter.
\* Returns the cipher, the error ("nil" or "exhausted") and the number of
\* passes the round loop made.
next(c) ==
    IF Exhausted(c) THEN [c |-> c, err |-> "exhausted", iters |-> 0]
    ELSE AfterLoop(c, RoundLoop([w |-> Working(c), z |-> c.rounds, iters |-> 0]))

\* b[k:] panics (slice bounds out of range) when k > len(b)
SliceFromOk(b, k) == k <= Len(b)

\* b[k:] of a slice, for k <= len(b)
SliceFrom(b, k) == SubSeq(b, k + 1, Len(b))

\* binary.LittleEndian.Uint32(b[k:]) returns (does not panic)
WordAtOk(b, k) == SliceFromOk(b, k) /\ Uint32Ok(SliceFrom(b, k))

\* binary.LittleEndian.Uint32(b[k:])
WordAt(b, k) == Uint32(SliceFrom(b, k))

RECURSIVE BytesFrom(_, _, _, _)
\* the bytes (a * i + b) % 256 for i = lo, ..., hi - 1, built by halves
BytesFrom(lo, hi, a, b) ==
    IF hi <= lo THEN <<>>
    ELSE IF hi = lo + 1 THEN <<(a * lo + b) % 256>>
    ELSE BytesFrom(lo, (lo + hi) \div 2, a, b) \o BytesFrom((lo + hi) \div 2, hi, a, b)

\* a slice of k bytes, byte i (from 0) being (a * i + b) % 256
Bytes(k, a, b) == BytesFrom(0, k, a, b)

\* a slice (or array) of k zero bytes, as make([]byte, k) returns it
Zeros(k) == Bytes(k, 0, 0)

\* the value of c before New has returned one
NoCipher == [eof |-> FALSE]

\* the four constant words "expand 32-byte k" (0x61707865, 0x3320646e,
\* 0x79622d32, 0x6b206574) as <<lo, hi>> halves
Sigma == << <<30821, 24944>>, <<25710, 13088>>, <<11570, 31074>>, <<25972, 27424>> >>

\* a New that takes the words it cannot read as zero
NewZeroPad(k, nonce, rounds) ==
    LET W(b, off) == IF WordAtOk(b, off) THEN WordAt(b, off) ELSE <<0, 0>>
    IN  [err |-> "nil",
         c   |-> [input    |-> <<Sigma[1], Sigma[2], Sigma[3], Sigma[4],
                                 W(k, 0), W(k, 4), W(k, 8), W(k, 12),
                                 W(k, 16), W(k, 20), W(k, 24), W(k, 28),
                                 <<0, 0>>, <<0, 0>>,
                                 W(nonce, 0), W(nonce, 4)>>,
                  output   |-> Zeros(OutputLen),
                  nextByte |-> OutputLen,
                  rounds   |-> rounds,
                  eof      |-> FALSE]]

\* New(key, iv, rounds): err is "nil" and c the cipher returned, or err is
\* "panic" when one of the reads of key or iv is out of range
New(k, nonce, rounds) ==
    IF (\A q \in 0..7 : WordAtOk(k, 4 * q)) /\ (\A q \in 0..1 : WordAtOk(nonce, 4 * q))
    THEN [err |-> "nil",
          c   |-> [input    |-> <<Sigma[1], Sigma[2], Sigma[3], Sigma[4],
                                  WordAt(k, 0), WordAt(k, 4), WordAt(k, 8),
                                  WordAt(k, 12), WordAt(k, 16), WordAt(k, 20),
                                  WordAt(k, 24), WordAt(k, 28),
                                  <<0, 0>>, <<0, 0>>,
                                  WordAt(nonce, 0), WordAt(nonce, 4)>>,
                   output   |-> Zeros(OutputLen),
                   nextByte |-> OutputLen,
                   rounds   |-> rounds,
                   eof      |-> FALSE]]
    ELSE [err |-> "panic", c |-> NoCipher]

\* a Seek that leaves c.eof as it is
SeekKeepEof(c, n) ==
    next([c EXCEPT !.input = [c.input EXCEPT ![12 + 1] = Lo32(n),
                                             ![13 + 1] = Hi32(n)]])

\* uint64 argument n of Seek as limbs: c.input[12] = uint32(n),
\* c.input[13] = uint32(n >> 32); c.eof = false; c.next()
\* Returns what next returns: the cipher and the error that Seek ignores.
Seek(c, n) ==
    next([c EXCEPT !.input = [c.input EXCEPT ![12 + 1] = Lo32(n),
                                             ![13 + 1] = Hi32(n)],
                   !.eof = FALSE])

RECURSIVE Iterate(_, _, _)
\* the state after k passes of a loop with body Body from state s; the passes
\* are composed by halves, which gives the same state as one after the other
\* (the state after the first half is bound to t before the second half runs)
Iterate(Body(_), s, k) ==
    IF k = 0 THEN s
    ELSE IF k = 1 THEN Body(s)
    ELSE CHOOSE r \in {Iterate(Body, t, k - (k \div 2)) :
                         t \in {Iterate(Body, s, k \div 2)}} : TRUE

\* if c.nextByte >= len(c.output) { err := c.next() ... }: the cipher and
\* the error of next, nil when next is not called
Refill(c) ==
    IF c.nextByte >= OutputLen THEN next(c) ELSE [c |-> c, err |-> "nil", iters |-> 0]

\* the rest of a pass of Read once the refill has returned r: return n,
\* io.EOF, or p[n] = c.output[c.nextByte]; c.nextByte++; n++
ReadByte(s, r) ==
    IF r.err # "nil"
    THEN [s EXCEPT !.err = "EOF"]
    ELSE [c   |-> [r.c EXCEPT !.nextByte = r.c.nextByte + 1],
          p   |-> [s.p EXCEPT ![s.n + 1] = Out(r.c, r.c.nextByte)],
          n   |-> s.n + 1,
          err |-> "nil"]

\* One pass of the loop of Cipher.Read on s = [c, p, n, err]; p[n] of the
\* source is s.p[n + 1].  err is "nil" while the loop runs and "EOF" once
\* Read has returned n, io.EOF: later passes then leave s as it is.
ReadBody(s) == IF s.err # "nil" THEN s ELSE ReadByte(s, Refill(s.c))

\* Cipher.Read(p): the cipher after the call, the buffer, the count and the
\* error returned ("nil" or "EOF"); the loop makes at most len(p) passes
Read(c, p) ==
    Iterate(ReadBody, [c |-> c, p |-> p, n |-> 0, err |-> "nil"], Len(p))

\* a combination of source and keystream byte written with | for ^
MixOr(a, b) == Or(a, b)

\* src[i] ^ c.output[c.nextByte]
Mix(a, b) == Xor(a, b)

\* the rest of a pass that takes the keystream byte at i, not at c.nextByte
XORByteAtI(s, r) ==
    IF r.err # "nil"
    THEN [s EXCEPT !.err = "exhausted"]
    ELSE IF s.i >= Len(s.src)
    THEN [s EXCEPT !.c = r.c, !.err = "index"]
    ELSE [c   |-> [r.c EXCEPT !.nextByte = r.c.nextByte + 1],
          dst |-> [s.dst EXCEPT ![s.i + 1] =
                     Mix(s.src[s.i + 1], Out(r.c, s.i % OutputLen))],
          src |-> s.src,
          i   |-> s.i + 1,
          err |-> "nil"]

\* the rest of a pass of XORKeyStream once the refill has returned r:
\* panic(err), or dst[i] = src[i] ^ c.output[c.nextByte]; c.nextByte++; i++,
\* where src[i] panics when i >= len(src)
XORByte(s, r) ==
    IF r.err # "nil"
    THEN [s EXCEPT !.err = "exhausted"]
    ELSE IF s.i >= Len(s.src)
    THEN [s EXCEPT !.c = r.c, !.err = "index"]
    ELSE [c   |-> [r.c EXCEPT !.nextByte = r.c.nextByte + 1],
          dst |-> [s.dst EXCEPT ![s.i + 1] =
                     Mix(s.src[s.i + 1], Out(r.c, r.c.nextByte))],
          src |-> s.src,
          i   |-> s.i + 1,
          err |-> "nil"]

\* One pass of the loop of Cipher.XORKeyStream on s = [c, dst, src, i, err];
\* err becomes "exhausted" on panic(err) and "index" on the run-time panic
\* of src[i] with i >= len(src); later passes then leave s as it is.
XORBody(s) == IF s.err # "nil" THEN s ELSE XORByte(s, Refill(s.c))

\* an XORKeyStream that stops at the end of the shorter of dst and src
XORKeyStreamShorter(c, dst, src) ==
    Iterate(XORBody, [c |-> c, dst |-> dst, src |-> src, i |-> 0, err |-> "nil"],
            IF Len(src) < Len(dst) THEN Len(src) ELSE Len(dst))

\* Cipher.XORKeyStream(dst, src): the cipher and dst after the call; err is
\* "nil" on return and names the panic otherwise; at most len(dst) passes
XORKeyStream(c, dst, src) ==
    Iterate(XORBody, [c |-> c, dst |-> dst, src |-> src, i |-> 0, err |-> "nil"],
            Len(dst))

-----------------------------------------------------------------------------
(* Inputs of the model *)

\* longest buffer handed to Read and XORKeyStream: one byte more than a block
MaxLen == 65

\* calls of Read and XORKeyStream made after a Seek (or after New) before
\* the next Seek
MaxCalls == 2

\* the largest round count tried by the block-transform specification
MaxRounds == 5

\* key and iv lengths tried by the construction specification go up to
\* KeyLen + MaxExtra and IvLen + MaxExtra
MaxExtra == 1

\* len(key) and len(iv) that New needs
KeyLen == 32
IvLen == 8

\* block indices handed to Seek: 0, 1, 2^32-1 (the next block is the first
\* with a non-zero high counter word) and 2^64-1
SeekArgs == {Zero64, <<1, 0, 0, 0>>, U64(Max32, <<0, 0>>), Max64}

\* the (key, iv, rounds) New is called with: the all-zero key and iv with 20
\* rounds, and a key and an iv one byte longer than needed with 8 rounds
Configs == {<<Bytes(KeyLen, 0, 0), Bytes(IvLen, 0, 0), 20>>,
            <<Bytes(KeyLen + 1, 7, 1), Bytes(IvLen + 1, 29, 128), 8>>}

\* buffer lengths: empty, one byte, one block, more than one block
Lens == {0, 1, OutputLen, MaxLen}

\* plaintexts handed to XORKeyStream
Plain == {Bytes(k, 37, 11) : k \in Lens \ {0}}

NoIndex == <<>>

-----------------------------------------------------------------------------
(* State *)

VARIABLES
    key, iv,     \* the arguments New was called with
    c,           \* the Cipher
    last,        \* the last call: its operation, arguments and results
    calls,       \* calls of Read and XORKeyStream since the last Seek
    saved,       \* a ciphertext kept by the caller, with its plaintext and
                 \* the block index it was encrypted at
    delivered    \* the number of bytes Read has returned since New, kept
                 \* for the cipher that is never seeked (five 16-bit limbs)

vars == <<key, iv, c, last, calls, saved, delivered>>

\* the record of a call.  op: the operation; arg: the block index of a Seek;
\* from: the block index of the Seek made right before this call, if any;
\* pre: the cipher before a Read or an XORKeyStream; src: the source of an XORKeyStream;
\* buf: p (Read) or dst (XORKeyStream) after the call; cnt: the count
\* returned by Read, the bytes written by XORKeyStream; err: the outcome
Call(op, arg, pre, src, buf, cnt, err) ==
    [op |-> op, arg |-> arg,
     from |-> IF last.op = "Seek" THEN last.arg ELSE NoIndex,
     pre |-> pre, src |-> src, buf |-> buf, cnt |-> cnt, err |-> err]

NoCall == [op |-> "New", arg |-> NoIndex, from |-> NoIndex, pre |-> NoCipher,
           src |-> <<>>, buf |-> <<>>, cnt |-> 0, err |-> "nil"]

Init ==
    /\ \E cf \in Configs :
        /\ key = cf[1]
        /\ iv = cf[2]
        /\ c = New(cf[1], cf[2], cf[3]).c
    /\ last = NoCall
    /\ calls = 0
    /\ saved = <<>>
    /\ delivered = <<>>

\* c.Seek(n)
DoSeek ==
    \E n \in SeekArgs :
        \E r \in {Seek(c, n)} :
            /\ c' = r.c
            /\ last' = Call("Seek", n, NoCipher, <<>>, <<>>, 0, r.err)
            /\ calls' = 0
            /\ UNCHANGED <<key, iv, saved, delivered>>

\* n, err := c.Read(p) with a buffer p of k bytes
DoRead ==
    /\ calls < MaxCalls
    /\ \E k \in Lens :
        \E r \in {Read(c, Zeros(k))} :
            /\ c' = r.c
            /\ last' = Call("Read", NoIndex, c, <<>>, r.p, r.n, r.err)
            /\ calls' = calls + 1
            /\ UNCHANGED <<key, iv, saved, delivered>>

\* c.XORKeyStream(dst, src) with len(dst) == len(src)
DoXOR ==
    /\ calls < MaxCalls
    /\ \E src \in Plain :
        \E r \in {XORKeyStream(c, Zeros(Len(src)), src)} :
            /\ c' = r.c
            /\ last' = Call("XOR", NoIndex, c, src, r.dst, r.i, r.err)
            /\ calls' = calls + 1
            /\ UNCHANGED <<key, iv, saved, delivered>>

\* c.XORKeyStream(dst, src) with len(dst) # len(src)
DoXORMismatch ==
    /\ calls < MaxCalls
    /\ \E src \in Plain : \E d \in {Len(src) - 1, Len(src) + 1} :
        /\ \E r \in {XORKeyStream(c, Zeros(d), src)} :
               /\ c' = r.c
               /\ last' = Call("XOR", NoIndex, c, src, r.dst, r.i, r.err)
               /\ calls' = calls + 1
               /\ UNCHANGED <<key, iv, saved, delivered>>

Next == DoSeek \/ DoRead \/ DoXOR \/ DoXORMismatch

Spec == Init /\ [][Next]_vars

\* c.XORKeyStream(ct, p) right after c.Seek(n), for a plaintext p; when the
\* call returns, the caller keeps n, p and the ciphertext ct
Encrypt ==
    /\ last.op = "Seek"
    /\ \E src \in Plain :
        \E r \in {XORKeyStream(c, Zeros(Len(src)), src)} :
            /\ c' = r.c
            /\ last' = Call("XOR", NoIndex, c, src, r.dst, r.i, r.err)
            /\ calls' = calls + 1
            /\ saved' = IF r.err = "nil"
                         THEN [n |-> last.arg, p |-> src, ct |-> r.dst]
                         ELSE saved
            /\ UNCHANGED <<key, iv, delivered>>

\* c.XORKeyStream(q, ct) right after c.Seek(n), for the ciphertext ct and
\* the block index n the caller kept
Decrypt ==
    /\ last.op = "Seek"
    /\ saved # <<>>
    /\ last.arg = saved.n
    /\ \E r \in {XORKeyStream(c, Zeros(Len(saved.ct)), saved.ct)} :
            /\ c' = r.c
            /\ last' = Call("Decrypt", NoIndex, c, saved.ct, r.dst, r.i, r.err)
            /\ calls' = calls + 1
            /\ UNCHANGED <<key, iv, saved, delivered>>

NextXor == DoSeek \/ DoRead \/ Encrypt \/ Decrypt

\* Seek, Read, and XORKeyStream used to encrypt and to decrypt
SpecXor == Init /\ [][NextXor]_vars

-----------------------------------------------------------------------------
(* Construction *)

\* lengths of key and of iv tried: none, less than a word, one word, short
\* by a word, short by a byte, exact, longer
KeyLens == {0, 3, 4, KeyLen - 4, KeyLen - 1, KeyLen} \cup (KeyLen + 1)..(KeyLen + MaxExtra)
IvLens == {0, 3, 4, IvLen - 1, IvLen} \cup (IvLen + 1)..(IvLen + MaxExtra)

InitNew ==
    /\ key = <<>>
    /\ iv = <<>>
    /\ c = NoCipher
    /\ last = [NoCall EXCEPT !.op = "none"]
    /\ calls = 0
    /\ saved = <<>>
    /\ delivered = <<>>

\* c := New(key, iv, rounds)
Construct ==
    /\ last.op = "none"
    /\ \E kl \in KeyLens, il \in IvLens, a \in {0, 7}, rounds \in {8, 20} :
        \E r \in {New(Bytes(kl, a, 1), Bytes(il, 29 * a, 128), rounds)} :
            /\ key' = Bytes(kl, a, 1)
            /\ iv' = Bytes(il, 29 * a, 128)
            /\ c' = r.c
            /\ last' = Call("New", NoIndex, NoCipher, <<>>, <<>>, rounds, r.err)
            /\ UNCHANGED <<calls, saved, delivered>>

NextNew == Construct

\* calls of New with keys and ivs of all lengths
SpecNew == InitNew /\ [][NextNew]_vars

-----------------------------------------------------------------------------
(* The block transform on its own *)

\* round counts tried: every count up to MaxRounds, odd ones included, and
\* the counts 8, 12 and 20 that New's comment names
RoundCounts == (1..MaxRounds) \cup {8, 12, 20}

\* a cipher at one of the counters of SeekArgs, with any of the round counts
InitBlock ==
    /\ \E cf \in Configs, j \in SeekArgs, rounds \in RoundCounts :
        /\ key = cf[1]
        /\ iv = cf[2]
        /\ c = [New(cf[1], cf[2], rounds).c EXCEPT
                   !.input = [@ EXCEPT ![12 + 1] = Lo32(j), ![13 + 1] = Hi32(j)]]
    /\ last = NoCall
    /\ calls = 0
    /\ saved = <<>>
    /\ delivered = <<>>

\* err := c.next(); the record keeps the output in buf and the number of
\* passes of the round loop in cnt
Generate ==
    /\ calls < MaxCalls
    /\ \E r \in {next(c)} :
        /\ c' = r.c
        /\ last' = Call("next", NoIndex, c, <<>>, r.c.output, r.iters, r.err)
        /\ calls' = calls + 1
        /\ UNCHANGED <<key, iv, saved, delivered>>

NextBlock == Generate

\* calls of next on ciphers of all round counts
SpecBlock == InitBlock /\ [][NextBlock]_vars

-----------------------------------------------------------------------------
(* The cipher that is never seeked *)

\* 64 * j for a uint64 j, as five limbs
Times64(j) ==
    LET t1 == j[1] * OutputLen
        t2 == j[2] * OutputLen + (t1 \div Half)
        t3 == j[3] * OutputLen + (t2 \div Half)
        t4 == j[4] * OutputLen + (t3 \div Half)
    IN  <<t1 % Half, t2 % Half, t3 % Half, t4 % Half, t4 \div Half>>

\* d + k for five limbs d and a small k
Plus(d, k) ==
    LET s1 == d[1] + k
        s2 == d[2] + (s1 \div Half)
        s3 == d[3] + (s2 \div Half)
        s4 == d[4] + (s3 \div Half)
    IN  <<s1 % Half, s2 % Half, s3 % Half, s4 % Half, d[5] + (s4 \div Half)>>

\* d - k for five limbs d and a small k <= d
Minus(d, k) ==
    LET b1 == IF d[1] < k THEN 1 ELSE 0
        b2 == IF d[2] < b1 THEN 1 ELSE 0
        b3 == IF d[3] < b2 THEN 1 ELSE 0
        b4 == IF d[4] < b3 THEN 1 ELSE 0
    IN  <<d[1] - k + b1 * Half, d[2] - b1 + b2 * Half, d[3] - b2 + b3 * Half,
          d[4] - b3 + b4 * Half, d[5] - b4>>

\* d \div 64 modulo 2^64 for five limbs d: the index of the block that
\* holds offset d
Div64(d) ==
    <<(d[1] \div OutputLen) + (d[2] % OutputLen) * (Half \div OutputLen),
      (d[2] \div OutputLen) + (d[3] % OutputLen) * (Half \div OutputLen),
      (d[3] \div OutputLen) + (d[4] % OutputLen) * (Half \div OutputLen),
      (d[4] \div OutputLen) + (d[5] % OutputLen) * (Half \div OutputLen)>>

\* 2^70, the length of the keystream in bytes
StreamLen == <<0, 0, 0, 0, OutputLen>>

\* the last block read where the model picks up the never-seeked cipher:
\* block 0, block 2^32-2 and block 2^64-2
SeqStarts == {Zero64, <<Half - 2, Half - 1, 0, 0>>,
              <<Half - 2, Half - 1, Half - 1, Half - 1>>}

\* The never-seeked cipher fresh after blocks 0 .. i have been read with
\* Read, for i < 2^64-1: the last call of next found the counter at i and
\* left block i in output, since wholly consumed, and the counter at i + 1.
PastBlock(fresh, i) ==
    [next([fresh EXCEPT !.input = [fresh.input EXCEPT ![12 + 1] = Lo32(i),
                                                      ![13 + 1] = Hi32(i)]]).c
        EXCEPT !.nextByte = OutputLen]

\* The cipher as New returns it, or as sequential Read has left it after
\* the blocks up to one of SeqStarts
InitSeq ==
    /\ \E cf \in Configs :
        /\ key = cf[1]
        /\ iv = cf[2]
        /\ \/ /\ c = New(cf[1], cf[2], cf[3]).c
              /\ delivered = <<0, 0, 0, 0, 0>>
           \/ \E i \in SeqStarts :
                /\ c = PastBlock(New(cf[1], cf[2], cf[3]).c, i)
                /\ delivered = Plus(Times64(i), OutputLen)
    /\ last = NoCall
    /\ calls = 0
    /\ saved = <<>>

\* n, err := c.Read(p) on the never-seeked cipher
SeqRead ==
    /\ calls < MaxCalls
    /\ \E k \in Lens :
        \E r \in {Read(c, Zeros(k))} :
            /\ c' = r.c
            /\ last' = Call("Read", NoIndex, c, <<>>, r.p, r.n, r.err)
            /\ calls' = calls + 1
            /\ delivered' = Plus(delivered, r.n)
            /\ UNCHANGED <<key, iv, saved>>

NextSeq == SeqRead

\* sequential Read on a cipher that is never seeked
SpecSeq == InitSeq /\ [][NextSeq]_vars

-----------------------------------------------------------------------------
(* The reference keystream *)

Min(a, b) == IF a < b THEN a ELSE b
Prefix(s, k) == SubSeq(s, 1, k)

\* the cipher New returns for the key, iv and round count of c
Fresh == New(key, iv, c.rounds).c

\* the never-seeked cipher at the moment its counter stands at j
AtCounter(j) ==
    [Fresh EXCEPT !.input = [Fresh.input EXCEPT ![12 + 1] = Lo32(j),
                                                ![13 + 1] = Hi32(j)]]

\* block j of the keystream: what the never-seeked cipher generates when
\* its counter stands at j
RefBlock(j) == next(AtCounter(j)).c.output

RECURSIVE RefStream(_, _)
\* the keystream from offset 64 * j on: m blocks, or fewer when the stream
\* ends with block 2^64-1 before that
RefStream(j, m) ==
    IF m = 0 THEN <<>>
    ELSE RefBlock(j) \o (IF j = Max64 THEN <<>> ELSE RefStream(Inc64(j), m - 1))

\* the number of blocks a buffer of k bytes touches
BlocksFor(k) == (k + OutputLen - 1) \div OutputLen

\* what sequential Read of the first m bytes yields on the fresh cipher
FreshRead(m) == Read(Fresh, Zeros(m)).p

\* src[i] ^ ks[i] for the first k bytes
XorBytes(src, ks, k) == [i \in 1..k |-> Xor(src[i], ks[i])]

-----------------------------------------------------------------------------
(* Claims on Seek, Read and XORKeyStream, under Spec *)

\* C1: whatever calls came before, a Read of k bytes made right after
\* Seek(n) returns the keystream bytes at offsets 64n .. 64n+k-1 (as far as
\* the stream reaches), and for n in {0, 1} these are the bytes the fresh,
\* never-seeked cipher yields at those offsets by sequential Read.
C1_SeekThenRead ==
    (last.op = "Read" /\ last.from # NoIndex) =>
        \A s \in {RefStream(last.from, BlocksFor(Len(last.buf)))} :
            /\ last.cnt = Min(Len(last.buf), Len(s))
            /\ Prefix(last.buf, last.cnt) = Prefix(s, last.cnt)
            /\ (last.from \in {Zero64, <<1, 0, 0, 0>>} =>
                  \A m \in {OutputLen * last.from[1]} :
                      last.buf = SubSeq(FreshRead(m + Len(last.buf)),
                                        m + 1, m + Len(last.buf)))

\* a Read of MaxLen bytes right after Seek(2^32-1): its second block is the
\* first whose counter has a non-zero high word
C1_Witness ==
    /\ last.op = "Read"
    /\ last.from = U64(Max32, <<0, 0>>)
    /\ last.cnt = MaxLen
    /\ In(c, 12) = <<1, 0>>
    /\ In(c, 13) = <<1, 0>>

\* C3 (as claimed): after Seek(2^64-1) the next Read into a non-empty buffer
\* returns io.EOF with zero bytes and the next XORKeyStream panics.
C3_Original ==
    /\ (last.op = "Read" /\ last.from = Max64 /\ Len(last.buf) > 0) =>
           (last.err = "EOF" /\ last.cnt = 0)
    /\ (last.op = "XOR" /\ last.from = Max64 /\ Len(last.buf) > 0) =>
           last.err = "exhausted"

\* C3 (amended): Seek(2^64-1) generates one more block with the counter at
\* its maximum and sets eof; once the 64 bytes of that block are consumed,
\* a Read into a non-empty buffer returns 0, io.EOF and writes nothing, and
\* an XORKeyStream over non-empty input panics having written nothing.
C3_Exhaustion ==
    /\ (last.op = "Seek" /\ last.arg = Max64) =>
           (c.eof /\ In(c, 12) = <<0, 0>> /\ In(c, 13) = <<0, 0>>)
    /\ (last.op \in {"Read", "XOR"} /\ last.pre.eof
          /\ last.pre.nextByte = OutputLen /\ Len(last.buf) > 0) =>
           /\ last.err = (IF last.op = "Read" THEN "EOF" ELSE "exhausted")
           /\ last.cnt = 0
           /\ last.buf = Zeros(Len(last.buf))
           /\ c = last.pre

\* a Read that returned 0, io.EOF on the exhausted cipher
C3_Witness ==
    /\ last.op = "Read"
    /\ last.pre.eof
    /\ last.pre.nextByte = OutputLen
    /\ Len(last.buf) > 0
    /\ last.err = "EOF"

C7_XorAsRead ==
    (last.op = "XOR" /\ Len(last.buf) = Len(last.src)) =>
        \A r \in {Read(last.pre, Zeros(Len(last.src)))} :
            r.err = "nil" =>
                /\ last.err = "nil"
                /\ last.cnt = Len(last.src)
                /\ last.buf = XorBytes(last.src, r.p, Len(last.src))
                /\ c = r.c

\* an XORKeyStream of MaxLen bytes that began in the middle of a block
C7_Witness ==
    /\ last.op = "XOR"
    /\ Len(last.src) = MaxLen
    /\ last.cnt = MaxLen
    /\ last.pre.nextByte \in 1..(OutputLen - 1)
    /\ last.err = "nil"

\* C8: Seek never fails; after Seek(2^64-1) a Read of at most 64 bytes
\* returns them all without io.EOF and an XORKeyStream of at most 64 bytes
\* does not panic, the bytes being those of block 2^64-1; a longer call
\* stops after exactly 64 bytes, when the following block is asked for.
C8_LastBlockValid ==
    /\ last.op = "Seek" => (last.err = "nil" /\ c.nextByte = 0)
    /\ (last.from = Max64 /\ last.op \in {"Read", "XOR"}
          /\ (last.op = "XOR" => Len(last.src) = Len(last.buf))) =>
           \A k \in {Min(Len(last.buf), OutputLen)} :
               /\ last.cnt = k
               /\ (Len(last.buf) <= OutputLen <=> last.err = "nil")
               /\ Prefix(last.buf, k) =
                    (IF last.op = "Read" THEN Prefix(RefBlock(Max64), k)
                     ELSE XorBytes(last.src, RefBlock(Max64), k))

\* a Read of a whole block right after Seek(2^64-1) that returned 64, nil
C8_Witness ==
    /\ last.op = "Read"
    /\ last.from = Max64
    /\ last.cnt = OutputLen
    /\ last.err = "nil"
    /\ c.eof

-----------------------------------------------------------------------------
(* Claim on encryption and decryption, under SpecXor *)

\* C2: XORKeyStream right after Seek(n) applied to the ciphertext that
\* XORKeyStream right after Seek(n) made of p gives back p, whatever was
\* called in between.
C2_Involution ==
    last.op = "Decrypt" => (last.err = "nil" /\ last.buf = saved.p)

\* a 65-byte plaintext, spanning two blocks, was encrypted at block 2^32-1
\* and its ciphertext decrypted there
C2_Witness ==
    /\ last.op = "Decrypt"
    /\ Len(saved.p) = MaxLen
    /\ saved.n = U64(Max32, <<0, 0>>)
    /\ last.cnt = MaxLen
    /\ saved.ct # saved.p

-----------------------------------------------------------------------------
(* Claim on sequential Read, under SpecSeq *)

\* C6: on the never-seeked cipher every Read returns nil with its buffer
\* filled, or io.EOF with the count of the bytes it wrote, never another
\* error; the bytes returned are those of the keystream at the offsets
\* delivered so far, block after block; io.EOF comes only when exactly 2^70
\* bytes have been delivered, and never more are.  The cipher stands where
\* the count says: cursor, counter and eof follow from delivered.
C6_SequentialRead ==
    /\ c.nextByte = (IF delivered[1] % OutputLen = 0 THEN OutputLen
                     ELSE delivered[1] % OutputLen)
    /\ U64(In(c, 12), In(c, 13)) = Div64(Plus(delivered, OutputLen - 1))
    /\ c.eof <=> (delivered # Plus(Times64(Zero64), 0)
                    /\ Div64(Plus(delivered, OutputLen - 1)) = Zero64)
    /\ delivered[5] < OutputLen \/ delivered = StreamLen
    /\ last.op = "Read" =>
          \A from \in {Minus(delivered, last.cnt)} :
          \A off \in {from[1] % OutputLen} :
          \A s \in {IF last.cnt = 0 THEN <<>>
                     ELSE RefStream(Div64(from), BlocksFor(off + last.cnt))} :
              /\ last.err \in {"nil", "EOF"}
              /\ last.err = "nil" => last.cnt = Len(last.buf)
              /\ last.err = "EOF" =>
                    (last.cnt < Len(last.buf) /\ delivered = StreamLen)
              /\ last.buf = SubSeq(s, off + 1, off + last.cnt)
                               \o Zeros(Len(last.buf) - last.cnt)

\* the Read that ran into exhaustion: asked for 65 bytes after 2^64-1 whole
\* blocks, it returned the 64 bytes of block 2^64-1 and io.EOF
C6_Witness ==
    /\ last.op = "Read"
    /\ Len(last.buf) = MaxLen
    /\ last.cnt = OutputLen
    /\ last.err = "EOF"
    /\ delivered = StreamLen

-----------------------------------------------------------------------------
(* Claim on construction, under SpecNew *)

\* C4 (as claimed): New with a key shorter than 32 bytes or an iv shorter
\* than 8 bytes returns the InvalidKeyLength / InvalidNonceLength error.
C4_Original ==
    (last.op = "New" /\ (Len(key) < KeyLen \/ Len(iv) < IvLen)) =>
        /\ last.err \in {"InvalidKeyLength", "InvalidNonceLength"}
        /\ c = NoCipher

\* C4 (amended): New with a key shorter than 32 bytes or an iv shorter than
\* 8 bytes produces no cipher, and its outcome is a run-time panic, not an
\* error value; with a key and an iv long enough it returns a cipher made
\* of the first 32 bytes of key and the first 8 bytes of iv alone.
C4_ShortInputPanics ==
    last.op = "New" =>
        IF Len(key) < KeyLen \/ Len(iv) < IvLen
        THEN last.err = "panic" /\ c = NoCipher
        ELSE /\ last.err = "nil"
             /\ c = New(Prefix(key, KeyLen), Prefix(iv, IvLen), last.cnt).c
             /\ c.nextByte = OutputLen /\ ~c.eof

\* New was called with a key of 32 bytes and an iv one byte short
C4_Witness ==
    /\ last.op = "New"
    /\ Len(key) = KeyLen
    /\ Len(iv) = IvLen - 1
    /\ last.err = "panic"

-----------------------------------------------------------------------------
(* Claims on the block transform, under SpecBlock *)

\* x <<< n on uint32, 0 < n < 32: the halves swap for 16 bits of the
\* rotation, and the bits leaving one half enter the other
RotL(x, n) ==
    LET y == IF n >= 16 THEN <<x[2], x[1]>> ELSE x
        m == n % 16
    IN  <<((y[1] * 2^m) % Half) + (y[2] \div 2^(16 - m)),
          ((y[2] * 2^m) % Half) + (y[1] \div 2^(16 - m))>>

\* the quarter round on words a, b, c, d (numbered from 0) of the state x:
\*   a += b; d ^= a; d <<<= 16;  c += d; b ^= c; b <<<= 12;
\*   a += b; d ^= a; d <<<= 8;   c += d; b ^= c; b <<<= 7
QuarterRound(x, a, b, cc, d) ==
    LET a1 == Add32(x[a + 1], x[b + 1])
        d1 == RotL(Xor32(x[d + 1], a1), 16)
        c1 == Add32(x[cc + 1], d1)
        b1 == RotL(Xor32(x[b + 1], c1), 12)
        a2 == Add32(a1, b1)
        d2 == RotL(Xor32(d1, a2), 8)
        c2 == Add32(c1, d2)
        b2 == RotL(Xor32(b1, c2), 7)
    IN  [x EXCEPT ![a + 1] = a2, ![b + 1] = b2, ![cc + 1] = c2, ![d + 1] = d2]

\* the groups of the column round and of the diagonal round
Columns == << <<0, 4, 8, 12>>, <<1, 5, 9, 13>>, <<2, 6, 10, 14>>, <<3, 7, 11, 15>> >>
Diagonals == << <<0, 5, 10, 15>>, <<1, 6, 11, 12>>, <<2, 7, 8, 13>>, <<3, 4, 9, 14>> >>

RECURSIVE Quarters(_, _, _)
\* the quarter rounds of the first m groups of G, in order
Quarters(x, G, m) ==
    IF m = 0 THEN x
    ELSE CHOOSE y \in {QuarterRound(t, G[m][1], G[m][2], G[m][3], G[m][4]) :
                         t \in {Quarters(x, G, m - 1)}} : TRUE

\* a column round followed by a diagonal round
DoubleRound(x) == Quarters(Quarters(x, Columns, 4), Diagonals, 4)

\* byte j (from 0) of the little-endian form of word v: (v >> 8j) & 0xff
LEByte(v, j) == (IF j = 0 THEN v ELSE Shr32(v, 8 * j))[1] % 256

\* the ChaCha block of state x with m double rounds: the rounds, then the
\* addition of the original words, then word i at offset 4i, little-endian
ChaChaBlock(x, m) ==
    CHOOSE z \in {[b \in 1..OutputLen |->
                     LEByte(Add32(y[((b - 1) \div 4) + 1], x[((b - 1) \div 4) + 1]),
                            (b - 1) % 4)] :
                  y \in {Iterate(DoubleRound, x, m)}} : TRUE

\* C9: for an even round count, next writes into output the ChaCha block of
\* the state it found (the counter words as they were before the increment)
\* with rounds / 2 double rounds, word i little-endian at offset 4i.
C9_BlockIsChaCha ==
    (last.op = "next" /\ last.err = "nil" /\ last.pre.rounds % 2 = 0) =>
        last.buf = ChaChaBlock(last.pre.input, last.pre.rounds \div 2)

\* a block of 20 rounds was generated from the all-zero key and iv at
\* counter 0: it begins with the bytes 76 b8 e0 ad of the published vector
C9_Witness ==
    /\ last.op = "next"
    /\ last.pre.rounds = 20
    /\ Prefix(last.buf, 4) = <<118, 184, 224, 173>>
    /\ key = Zeros(KeyLen)
    /\ In(last.pre, 12) = <<0, 0>>

\* C10 (as claimed): for every positive round count the round loop makes
\* exactly rounds / 2 passes.
C10_Original ==
    (last.op = "next" /\ last.err = "nil") => last.cnt = last.pre.rounds \div 2

\* C10 (amended): for every positive round count the round loop ends after
\* exactly (rounds + 1) / 2 passes, rounds / 2 of them when rounds is even,
\* and each pass is one whole column round followed by one whole diagonal
\* round: the output is the ChaCha block with that many double rounds.
C10_LoopPasses ==
    (last.op = "next" /\ last.err = "nil") =>
        /\ last.cnt = (last.pre.rounds + 1) \div 2
        /\ (last.pre.rounds % 2 = 0 => last.cnt = last.pre.rounds \div 2)
        /\ last.buf = ChaChaBlock(last.pre.input, last.cnt)

\* a block was generated with an odd round count greater than 1
C10_Witness ==
    /\ last.op = "next"
    /\ last.err = "nil"
    /\ last.pre.rounds = 3
    /\ last.cnt = 2

=============================================================================
